---- MODULE Spec2Model ----
(***************************************************************************)
(* Model of the diagram editor (src/src/main.rs): the hierarchical graph   *)
(* of Subsystems, the navigation context of DiagramViewer and the          *)
(* "Convert To Subsystem" extraction of show_graph_menu.                   *)
(*                                                                         *)
(* Conventions.  Rust indices are 0-based, the model's are 1-based: node   *)
(* id i and port index i of the model are id i-1 and index i-1 of the      *)
(* program.  An Rc<RefCell<Subsystem>> is a handle into the arena `subs`;  *)
(* two Rc's alias iff they are the same handle, and a Subsystem that no    *)
(* Rc references any more is dropped from the arena.  Node positions and   *)
(* all drawing are left out, but for the pass over the pins of a node in   *)
(* which drop_inputs / drop_outputs are called (`pass`).  A node name is a *)
(* tuple: <<"Node">>, <<"Subsystem">>, <<"Ext", n>> for format!("Ext{}", n). *)
(***************************************************************************)
EXTENDS Integers, Sequences, FiniteSets, TLC

VARIABLES subs, current, previous, path, panicked, pass, left, last

vars == <<subs, current, previous, path, panicked, pass, left, last>>

(* ---------------------------- bounds ----------------------------------- *)
\* The commands a session is explored with (the variable `left` counts them
\* down).  Spec explores every command, navigation included; SpecFlat explores
\* larger diagrams up to their first conversion; SpecDeep explores one node,
\* converted and converted again.
\* "Add Node" clicks
MaxNodes == 2
FlatNodes == 3
\* "Add Input" and "Add Output" clicks
MaxPorts == 2
FlatPorts == 4
\* wires drawn
MaxWires == 1
FlatWires == 3
\* edits of a port name
MaxEdited == 1
FlatEdited == 1
\* clicks that drop the wires of a pin
MaxDrops == 1
FlatDrops == 1
\* "Remove Node" clicks
MaxRemoved == 1
FlatRemoved == 1
\* "Convert To Subsystem" clicks
MaxConverts == 1
FlatConverts == 1
\* nodes selected when "Convert To Subsystem" is clicked
MaxSelected == 1
FlatSelected == 2
\* Subsystems alive at the same time (the top level included)
MaxSubs == 3
\* SpecDeep: "Add Node" and "Convert To Subsystem" clicks of a session that
\* converts what it has converted before
DeepNodes == 1
DeepConverts == 2

\* the names a port's text field is edited to (besides the default names)
EditedNames == {"x"}

(* ---------------------------- values ----------------------------------- *)
\* DiagramViewer.toplevel: the handle of the Subsystem created by DiagramApp::new
Toplevel == 1

\* Option::None of Node.subsystem
None == 0

Handles == 1..MaxSubs

\* Input::default()
DefaultInput == [name |-> "Input", kind |-> "Normal"]

\* Output::default()
DefaultOutput == [name |-> "Output", kind |-> "Normal"]

\* Node::default()
DefaultNode == [name |-> <<"Node">>, inputs |-> <<>>, outputs |-> <<>>, subsystem |-> None]

\* no drawing pass over the pins of a node is under way
NoPass == [side |-> "none"]

InPinId(n, i) == [node |-> n, input |-> i]

OutPinId(n, o) == [node |-> n, output |-> o]

Wire(out, in) == [out_pin |-> out, in_pin |-> in]

(* ------------------------- sequence helpers ---------------------------- *)
Range(s) == {s[i] : i \in DOMAIN s}

Last(s) == s[Len(s)]

Front(s) == SubSeq(s, 1, Len(s) - 1)

Min(S) == CHOOSE x \in S : \A y \in S : x <= y

\* Vec::remove(i)
RemoveAt(s, i) == SubSeq(s, 1, i - 1) \o SubSeq(s, i + 1, Len(s))

\* every order in which the elements of a set can be enumerated
Orders(S) == {s \in [1..Cardinality(S) -> S] : \A i, j \in 1..Cardinality(S) : s[i] = s[j] => i = j}

\* one of those orders
SomeOrder(S) == CHOOSE s \in Orders(S) : TRUE

RECURSIVE SortedSeq(_)
\* the elements of a set of numbers in increasing order
SortedSeq(S) == IF S = {} THEN <<>> ELSE <<Min(S)>> \o SortedSeq(S \ {Min(S)})

(* ------------------- Snarl<Node>: the graph container ------------------ *)
\* Snarl::new(): a slab of nodes (nodes: live id -> Node, len: slots ever
\* used, free: the vacant slots, most recently vacated first) and a set of wires
NewSnarl == [nodes |-> <<>>, len |-> 0, free |-> <<>>, wires |-> {}]

\* the id the next insert_node returns: the most recently vacated slot, else a new one
NextId(s) == IF s.free = <<>> THEN s.len + 1 ELSE Head(s.free)

\* Snarl::insert_node(pos, node)
insert_node(s, node) ==
    [nodes |-> (NextId(s) :> node) @@ s.nodes,
     len   |-> IF s.free = <<>> THEN s.len + 1 ELSE s.len,
     free  |-> IF s.free = <<>> THEN <<>> ELSE Tail(s.free),
     wires |-> s.wires]

\* a variant that leaves the wires of the removed node in place
remove_nodeKeepsWires(s, id) ==
    [nodes |-> [i \in (DOMAIN s.nodes) \ {id} |-> s.nodes[i]],
     len   |-> s.len,
     free  |-> <<id>> \o s.free,
     wires |-> s.wires]

\* Snarl::remove_node(id): drops the node and every wire touching it
remove_node(s, id) ==
    [nodes |-> [i \in (DOMAIN s.nodes) \ {id} |-> s.nodes[i]],
     len   |-> s.len,
     free  |-> <<id>> \o s.free,
     wires |-> {w \in s.wires : w.out_pin.node # id /\ w.in_pin.node # id}]

\* Snarl::connect(from, to): adds the wire to the set of wires
connect(s, from, to) == [s EXCEPT !.wires = @ \cup {Wire(from, to)}]

\* Snarl::in_pin(pin).remotes
InRemotes(s, pin) == {w.out_pin : w \in {v \in s.wires : v.in_pin = pin}}

\* Snarl::out_pin(pin).remotes
OutRemotes(s, pin) == {w.in_pin : w \in {v \in s.wires : v.out_pin = pin}}

\* Snarl::node_ids(): the live nodes in slot order
node_ids(s) == SortedSeq(DOMAIN s.nodes)

(* ------------------------- the arena of Rc's --------------------------- *)
\* the Subsystems the nodes of a graph reference
Children(g) == {g.nodes[n].subsystem : n \in DOMAIN g.nodes} \ {None}

RECURSIVE ReachFrom(_, _, _)
\* the handles reachable from a set of handles through Node.subsystem
ReachFrom(m, hs, k) ==
    IF k = 0 THEN hs
    ELSE ReachFrom(m, hs \cup UNION {Children(m[h]) : h \in hs \cap DOMAIN m}, k - 1)

\* dropping the Subsystems no Rc references any more
DropUnreferenced(m, roots) ==
    [h \in ReachFrom(m, roots, MaxSubs + 1) \cap DOMAIN m |-> m[h]]

\* Rc::new(RefCell::new(..)): a handle that is not in use
FreeHandles == Handles \ DOMAIN subs

\* the graph shown by DiagramApp::update: self.viewer.current.borrow_mut().snarl
Snarl == subs[current]

(* ------------------------------ Init ----------------------------------- *)
\* DiagramApp::new with no stored document: an empty top level, shown, no history
Init ==
    /\ subs = (Toplevel :> NewSnarl)
    /\ current = Toplevel
    /\ previous = <<>>
    /\ path = <<>>
    /\ panicked = FALSE
    /\ pass = NoPass
    /\ left = [nodes |-> MaxNodes, ports |-> MaxPorts, wires |-> MaxWires,
               edited |-> MaxEdited, drops |-> MaxDrops, removed |-> MaxRemoved,
               converts |-> MaxConverts, selected |-> MaxSelected]
    /\ last = [op |-> "new"]

(* --------------------------- node menu --------------------------------- *)
\* "Add Node"
AddNode ==
    /\ ~panicked
    /\ pass = NoPass
    /\ left.nodes > 0
    /\ left' = [left EXCEPT !.nodes = @ - 1]
    /\ subs' = [subs EXCEPT ![current] = insert_node(@, DefaultNode)]
    /\ last' = [op |-> "edit"]
    /\ UNCHANGED <<current, previous, path, panicked, pass>>

\* "Add Input"
AddInput(node_id) ==
    /\ ~panicked
    /\ pass = NoPass
    /\ left.ports > 0
    /\ left' = [left EXCEPT !.ports = @ - 1]
    /\ subs' = [subs EXCEPT ![current].nodes[node_id].inputs = Append(@, DefaultInput)]
    /\ last' = [op |-> "edit"]
    /\ UNCHANGED <<current, previous, path, panicked, pass>>

\* "Add Output"
AddOutput(node_id) ==
    /\ ~panicked
    /\ pass = NoPass
    /\ left.ports > 0
    /\ left' = [left EXCEPT !.ports = @ - 1]
    /\ subs' = [subs EXCEPT ![current].nodes[node_id].outputs = Append(@, DefaultOutput)]
    /\ last' = [op |-> "edit"]
    /\ UNCHANGED <<current, previous, path, panicked, pass>>

\* show_input: the text field edits the name of the input port
EditInputName(node_id, input, name) ==
    /\ ~panicked
    /\ pass = NoPass
    /\ input \in 1..Len(Snarl.nodes[node_id].inputs)
    /\ Snarl.nodes[node_id].inputs[input].name # name
    /\ left.edited > 0
    /\ left' = [left EXCEPT !.edited = @ - 1]
    /\ subs' = [subs EXCEPT ![current].nodes[node_id].inputs[input].name = name]
    /\ last' = [op |-> "edit"]
    /\ UNCHANGED <<current, previous, path, panicked, pass>>

\* show_output: the text field edits the name of the output port
EditOutputName(node_id, output, name) ==
    /\ ~panicked
    /\ pass = NoPass
    /\ output \in 1..Len(Snarl.nodes[node_id].outputs)
    /\ Snarl.nodes[node_id].outputs[output].name # name
    /\ left.edited > 0
    /\ left' = [left EXCEPT !.edited = @ - 1]
    /\ subs' = [subs EXCEPT ![current].nodes[node_id].outputs[output].name = name]
    /\ last' = [op |-> "edit"]
    /\ UNCHANGED <<current, previous, path, panicked, pass>>

\* "Remove Node": the node's Rc to its Subsystem is dropped with it
RemoveNode(node_id) ==
    /\ ~panicked
    /\ pass = NoPass
    /\ left.removed > 0
    /\ left' = [left EXCEPT !.removed = @ - 1]
    /\ subs' = DropUnreferenced([subs EXCEPT ![current] = remove_node(@, node_id)],
                                {Toplevel, current} \cup Range(previous))
    /\ last' = [op |-> "remove", node |-> node_id]
    /\ UNCHANGED <<current, previous, path, panicked, pass>>

(* --------------------------- wires and pins ---------------------------- *)
\* SnarlViewer::connect is not overridden: the default calls Snarl::connect
Connect(from, to) ==
    /\ ~panicked
    /\ pass = NoPass
    /\ from.output \in 1..Len(Snarl.nodes[from.node].outputs)
    /\ to.input \in 1..Len(Snarl.nodes[to.node].inputs)
    /\ Wire(from, to) \notin Snarl.wires
    /\ left.wires > 0
    /\ left' = [left EXCEPT !.wires = @ - 1]
    /\ subs' = [subs EXCEPT ![current] = connect(@, from, to)]
    /\ last' = [op |-> "edit"]
    /\ UNCHANGED <<current, previous, path, panicked, pass>>

\* Snarl::drop_inputs(pin): removes the wires of the input pin
snarl_drop_inputs(s, pin) == [s EXCEPT !.wires = {w \in @ : w.in_pin # pin}]

\* Snarl::drop_outputs(pin): removes the wires of the output pin
snarl_drop_outputs(s, pin) == [s EXCEPT !.wires = {w \in @ : w.out_pin # pin}]

\* the value Snarl::drop_inputs returns: the number of wires it removed
DroppedInputs(s, pin) == Cardinality({w \in s.wires : w.in_pin = pin})

\* the value Snarl::drop_outputs returns: the number of wires it removed
DroppedOutputs(s, pin) == Cardinality({w \in s.wires : w.out_pin = pin})

\* a variant that removes the port whether or not it carried a wire
drop_inputsAlways(pin) ==
    /\ ~panicked
    /\ pass = NoPass
    /\ pin.input \in 1..Len(Snarl.nodes[pin.node].inputs)
    /\ subs' = [subs EXCEPT ![current] =
                 [snarl_drop_inputs(@, pin) EXCEPT !.nodes[pin.node].inputs = RemoveAt(@, pin.input)]]
    /\ last' = [op |-> "drop_inputs", pin |-> pin, pre |-> Snarl]
    /\ left.drops > 0
    /\ left' = [left EXCEPT !.drops = @ - 1]
    /\ pass' = [side |-> "inputs", node |-> pin.node, at |-> pin.input,
                count |-> Len(Snarl.nodes[pin.node].inputs)]
    /\ UNCHANGED <<current, previous, path, panicked>>

\* DiagramViewer::drop_inputs on a pin that is shown
drop_inputs(pin) ==
    /\ ~panicked
    /\ pass = NoPass
    /\ pin.input \in 1..Len(Snarl.nodes[pin.node].inputs)
    /\ subs' = [subs EXCEPT ![current] =
                 IF DroppedInputs(@, pin) = 0
                 THEN [snarl_drop_inputs(@, pin) EXCEPT !.nodes[pin.node].inputs = RemoveAt(@, pin.input)]
                 ELSE snarl_drop_inputs(@, pin)]
    /\ last' = [op |-> "drop_inputs", pin |-> pin, pre |-> Snarl]
    /\ left.drops > 0
    /\ left' = [left EXCEPT !.drops = @ - 1]
    /\ pass' = [side |-> "inputs", node |-> pin.node, at |-> pin.input,
                count |-> Len(Snarl.nodes[pin.node].inputs)]
    /\ UNCHANGED <<current, previous, path, panicked>>

\* DiagramViewer::drop_outputs on a pin that is shown
drop_outputs(pin) ==
    /\ ~panicked
    /\ pass = NoPass
    /\ pin.output \in 1..Len(Snarl.nodes[pin.node].outputs)
    /\ subs' = [subs EXCEPT ![current] =
                 IF DroppedOutputs(@, pin) = 0
                 THEN [snarl_drop_outputs(@, pin) EXCEPT !.nodes[pin.node].outputs = RemoveAt(@, pin.output)]
                 ELSE snarl_drop_outputs(@, pin)]
    /\ last' = [op |-> "drop_outputs", pin |-> pin, pre |-> Snarl]
    /\ left.drops > 0
    /\ left' = [left EXCEPT !.drops = @ - 1]
    /\ pass' = [side |-> "outputs", node |-> pin.node, at |-> pin.output,
                count |-> Len(Snarl.nodes[pin.node].outputs)]
    /\ UNCHANGED <<current, previous, path, panicked>>

\* the rest of the pass that draws the pins of the node: the widget made the
\* list of the node's pins (count of them) before it showed the first, and
\* goes on to show_input / show_output of the pins after the one whose
\* wires were dropped; node.inputs[pin.id.input] past the end of the list panics
ShowRemainingPins ==
    /\ ~panicked
    /\ pass # NoPass
    /\ LET ports == IF pass.side = "inputs" THEN Snarl.nodes[pass.node].inputs
                    ELSE Snarl.nodes[pass.node].outputs
       IN  panicked' = (\E idx \in (pass.at + 1)..pass.count : idx > Len(ports))
    /\ pass' = NoPass
    /\ UNCHANGED <<subs, current, previous, path, left, last>>

(* ----------------------------- navigation ------------------------------ *)
\* a variant that shows a copy of the node's Subsystem
EnterCopy(node_id) ==
    /\ ~panicked
    /\ pass = NoPass
    /\ FreeHandles # {}
    /\ previous' = Append(previous, current)
    /\ current' = Min(FreeHandles)
    /\ subs' = (Min(FreeHandles) :>
                  (IF Snarl.nodes[node_id].subsystem # None
                   THEN subs[Snarl.nodes[node_id].subsystem] ELSE NewSnarl)) @@ subs
    /\ last' = [op |-> "enter", node |-> node_id, had |-> Snarl.nodes[node_id].subsystem # None,
                pre_current |-> current, pre_previous |-> previous,
                again |-> (last.op = "leave" /\ last.node = node_id),
                edited |-> (last.op = "leave" /\ last.edited),
                seen |-> IF last.op = "leave" THEN last.graph ELSE NewSnarl]
    /\ path' = Append(path, node_id)
    /\ UNCHANGED <<panicked, left, pass>>

\* a variant that pushes the Subsystem it enters
EnterPushesTarget(node_id) ==
    /\ ~panicked
    /\ pass = NoPass
    /\ LET subsystem == Snarl.nodes[node_id].subsystem
       IN  /\ subsystem # None \/ FreeHandles # {}
           /\ IF subsystem # None
              THEN /\ current' = subsystem
                   /\ previous' = Append(previous, subsystem)
                   /\ subs' = subs
              ELSE /\ current' = Min(FreeHandles)
                   /\ previous' = Append(previous, Min(FreeHandles))
                   /\ subs' = (Min(FreeHandles) :> NewSnarl) @@ subs
           /\ last' = [op |-> "enter", node |-> node_id, had |-> subsystem # None,
                       pre_current |-> current, pre_previous |-> previous,
                       again |-> (last.op = "leave" /\ last.node = node_id),
                       edited |-> (last.op = "leave" /\ last.edited),
                       seen |-> IF last.op = "leave" THEN last.graph ELSE NewSnarl]
    /\ path' = Append(path, node_id)
    /\ UNCHANGED <<panicked, left, pass>>

\* a variant that attaches the Subsystem it comes from to a node that has none
EnterAttachesCurrent(node_id) ==
    /\ ~panicked
    /\ pass = NoPass
    /\ LET subsystem == Snarl.nodes[node_id].subsystem
       IN  /\ subsystem # None \/ FreeHandles # {}
           /\ previous' = Append(previous, current)
           /\ IF subsystem # None
              THEN /\ current' = subsystem
                   /\ subs' = subs
              ELSE /\ current' = Min(FreeHandles)
                   /\ subs' = (Min(FreeHandles) :> NewSnarl)
                               @@ [subs EXCEPT ![current].nodes[node_id].subsystem = current]
           /\ last' = [op |-> "enter", node |-> node_id, had |-> subsystem # None,
                       pre_current |-> current, pre_previous |-> previous,
                       again |-> (last.op = "leave" /\ last.node = node_id),
                       edited |-> (last.op = "leave" /\ last.edited),
                       seen |-> IF last.op = "leave" THEN last.graph ELSE NewSnarl]
    /\ path' = Append(path, node_id)
    /\ UNCHANGED <<panicked, left, pass>>

\* "Enter Subsystem": push current, then show the node's Subsystem, or a new
\* empty one when the node has none
Enter(node_id) ==
    /\ ~panicked
    /\ pass = NoPass
    /\ LET subsystem == Snarl.nodes[node_id].subsystem
       IN  /\ subsystem # None \/ FreeHandles # {}
           /\ previous' = Append(previous, current)
           /\ IF subsystem # None
              THEN /\ current' = subsystem
                   /\ subs' = subs
              ELSE /\ current' = Min(FreeHandles)
                   /\ subs' = (Min(FreeHandles) :> NewSnarl) @@ subs
           /\ last' = [op |-> "enter", node |-> node_id, had |-> subsystem # None,
                       pre_current |-> current, pre_previous |-> previous,
                       again |-> (last.op = "leave" /\ last.node = node_id),
                       edited |-> (last.op = "leave" /\ last.edited),
                       seen |-> IF last.op = "leave" THEN last.graph ELSE NewSnarl]
    /\ path' = Append(path, node_id)
    /\ UNCHANGED <<panicked, left, pass>>

\* a variant that shows the last history entry and leaves it in the history
LeaveKeepsHistory ==
    /\ ~panicked
    /\ pass = NoPass
    /\ previous # <<>>
    /\ current' = Last(previous)
    /\ previous' = previous
    /\ path' = path
    /\ subs' = subs
    /\ last' = [op |-> "leave", node |-> Last(path), graph |-> subs[current],
                edited |-> (last.op \notin {"enter", "leave"})]
    /\ UNCHANGED <<panicked, left, pass>>

\* Leave as it would be if it returned to the top level instead of the view
\* that was left last.
LeaveToToplevel ==
    /\ ~panicked
    /\ pass = NoPass
    /\ previous # <<>>
    /\ current' = Toplevel
    /\ previous' = Front(previous)
    /\ path' = Front(path)
    /\ subs' = DropUnreferenced(subs, {Toplevel} \cup Range(Front(previous)))
    /\ last' = [op |-> "leave", node |-> Last(path), graph |-> subs[current],
                edited |-> (last.op \notin {"enter", "leave"})]
    /\ UNCHANGED <<panicked, left, pass>>

\* "Go Up One Level": offered when previous is not empty
Leave ==
    /\ ~panicked
    /\ pass = NoPass
    /\ previous # <<>>
    /\ current' = Last(previous)
    /\ previous' = Front(previous)
    /\ path' = Front(path)
    /\ subs' = DropUnreferenced(subs, {Toplevel, Last(previous)} \cup Range(Front(previous)))
    /\ last' = [op |-> "leave", node |-> Last(path), graph |-> subs[current],
                edited |-> (last.op \notin {"enter", "leave"})]
    /\ UNCHANGED <<panicked, left, pass>>

(* ----------------------- "Convert To Subsystem" ------------------------ *)
\* the wires with an endpoint in the selection
RelevantWires(snarl, sel) ==
    {w \in snarl.wires : w.in_pin.node \in sel \/ w.out_pin.node \in sel}

\* internal_wires: both endpoints selected
InternalWires(wires, sel) ==
    SelectSeq(wires, LAMBDA w : w.in_pin.node \in sel /\ w.out_pin.node \in sel)

\* external_inputs: the input end selected, the output end not
ExternalInputs(wires, sel) ==
    SelectSeq(wires, LAMBDA w : w.in_pin.node \in sel /\ w.out_pin.node \notin sel)

\* external_outputs: the output end selected, the input end not
ExternalOutputs(wires, sel) ==
    SelectSeq(wires, LAMBDA w : w.in_pin.node \notin sel /\ w.out_pin.node \in sel)

\* snarl[pin_in.node].inputs[pin_in.input] or snarl[pin_out.node].outputs[pin_out.output]
\* indexes past the end of the port list: the program panics
NamePanics(snarl, external_inputs, external_outputs) ==
    \/ \E n \in DOMAIN external_inputs :
          external_inputs[n].in_pin.input > Len(snarl.nodes[external_inputs[n].in_pin.node].inputs)
    \/ \E n \in DOMAIN external_outputs :
          external_outputs[n].out_pin.output > Len(snarl.nodes[external_outputs[n].out_pin.node].outputs)

\* external_input_names
ExternalInputNames(snarl, external_inputs) ==
    [n \in DOMAIN external_inputs |->
        snarl.nodes[external_inputs[n].in_pin.node].inputs[external_inputs[n].in_pin.input].name]

\* external_output_names
ExternalOutputNames(snarl, external_outputs) ==
    [n \in DOMAIN external_outputs |->
        snarl.nodes[external_outputs[n].out_pin.node].outputs[external_outputs[n].out_pin.output].name]

\* a variant whose output is an ordinary port
SourceNodeNormal(tag, n, name) ==
    [name |-> <<tag, n>>, inputs |-> <<>>,
     outputs |-> <<[name |-> name, kind |-> "Normal"]>>, subsystem |-> None]

\* the stand-in node of the n-th external input: one External output, no input
SourceNode(tag, n, name) ==
    [name |-> <<tag, n>>, inputs |-> <<>>,
     outputs |-> <<[name |-> name, kind |-> "External"]>>, subsystem |-> None]

\* the stand-in node of the n-th external output: one External input, no output
SinkNode(tag, n, name) ==
    [name |-> <<tag, n>>, inputs |-> <<[name |-> name, kind |-> "External"]>>,
     outputs |-> <<>>, subsystem |-> None]

RECURSIVE InsertNodes(_, _)
\* insert_node of each node of a list in turn, and the ids it returned
InsertNodes(s, nodes) ==
    IF nodes = <<>> THEN [snarl |-> s, ids |-> <<>>]
    ELSE LET r == InsertNodes(insert_node(s, Head(nodes)), Tail(nodes))
         IN  [snarl |-> r.snarl, ids |-> <<NextId(s)>> \o r.ids]

RECURSIVE RehomeRemovesNewId(_, _, _, _)
\* a variant that removes the node of the new id from snarl, not that of the old id
RehomeRemovesNewId(snarl, subsystem, node_map, selected) ==
    IF selected = <<>>
    THEN [snarl |-> snarl, subsystem |-> subsystem, node_map |-> node_map]
    ELSE LET node_id == Head(selected)
         IN  IF node_id \notin DOMAIN snarl.nodes
             THEN RehomeRemovesNewId(snarl, subsystem, node_map, Tail(selected))
             ELSE RehomeRemovesNewId(remove_node(snarl, NextId(subsystem)),
                                     insert_node(subsystem, snarl.nodes[node_id]),
                                     (node_id :> NextId(subsystem)) @@ node_map,
                                     Tail(selected))

RECURSIVE RehomeCopies(_, _, _, _)
\* a variant that copies each selected node and leaves it in snarl
RehomeCopies(snarl, subsystem, node_map, selected) ==
    IF selected = <<>>
    THEN [snarl |-> snarl, subsystem |-> subsystem, node_map |-> node_map]
    ELSE LET node_id == Head(selected)
         IN  IF node_id \notin DOMAIN snarl.nodes
             THEN RehomeCopies(snarl, subsystem, node_map, Tail(selected))
             ELSE RehomeCopies(snarl,
                               insert_node(subsystem, snarl.nodes[node_id]),
                               (node_id :> NextId(subsystem)) @@ node_map,
                               Tail(selected))

RECURSIVE RehomeSwapsMap(_, _, _, _)
\* a variant whose node_map takes the new id to the old id
RehomeSwapsMap(snarl, subsystem, node_map, selected) ==
    IF selected = <<>>
    THEN [snarl |-> snarl, subsystem |-> subsystem, node_map |-> node_map]
    ELSE LET node_id == Head(selected)
         IN  IF node_id \notin DOMAIN snarl.nodes
             THEN RehomeSwapsMap(snarl, subsystem, node_map, Tail(selected))
             ELSE RehomeSwapsMap(remove_node(snarl, node_id),
                                 insert_node(subsystem, snarl.nodes[node_id]),
                                 (NextId(subsystem) :> node_id) @@ node_map,
                                 Tail(selected))

RECURSIVE Rehome(_, _, _, _)
\* the node_map loop: each selected node that exists moves from snarl to the subsystem
Rehome(snarl, subsystem, node_map, selected) ==
    IF selected = <<>>
    THEN [snarl |-> snarl, subsystem |-> subsystem, node_map |-> node_map]
    ELSE LET node_id == Head(selected)
         IN  IF node_id \notin DOMAIN snarl.nodes
             THEN Rehome(snarl, subsystem, node_map, Tail(selected))
             ELSE Rehome(remove_node(snarl, node_id),
                         insert_node(subsystem, snarl.nodes[node_id]),
                         (node_id :> NextId(subsystem)) @@ node_map,
                         Tail(selected))

RECURSIVE ConnectAll(_, _)
\* for_each(|(pin_out, pin_in)| snarl.connect(pin_out, pin_in))
ConnectAll(s, pairs) ==
    IF pairs = <<>> THEN s
    ELSE ConnectAll(connect(s, Head(pairs).out_pin, Head(pairs).in_pin), Tail(pairs))

\* a variant that keeps the old node ids of the internal wires
InternalPairsUnmapped(internal_wires, node_map) ==
    SelectSeq(internal_wires,
        LAMBDA w : w.out_pin.node \in DOMAIN node_map /\ w.in_pin.node \in DOMAIN node_map)

\* the internal connections, both ends through node_map; a wire with an end
\* that is not mapped is skipped
InternalPairs(internal_wires, node_map) ==
    LET mapped == SelectSeq(internal_wires,
                     LAMBDA w : w.out_pin.node \in DOMAIN node_map /\ w.in_pin.node \in DOMAIN node_map)
    IN  [k \in DOMAIN mapped |->
            Wire(OutPinId(node_map[mapped[k].out_pin.node], mapped[k].out_pin.output),
                 InPinId(node_map[mapped[k].in_pin.node], mapped[k].in_pin.input))]

\* the n-th stand-in source feeds the input the n-th external input fed
ExternalInputPairs(external_inputs, external_input_nodes, node_map) ==
    [n \in DOMAIN external_inputs |->
        Wire(OutPinId(external_input_nodes[n], 1),
             InPinId(node_map[external_inputs[n].in_pin.node], external_inputs[n].in_pin.input))]

\* the output the n-th external output left feeds the n-th stand-in sink
ExternalOutputPairs(external_outputs, external_output_nodes, node_map) ==
    [n \in DOMAIN external_outputs |->
        Wire(OutPinId(node_map[external_outputs[n].out_pin.node], external_outputs[n].out_pin.output),
             InPinId(external_output_nodes[n], 1))]

\* the two expect() calls: an end of an external wire that node_map lacks
ExpectPanics(external_inputs, external_outputs, node_map) ==
    \/ \E n \in DOMAIN external_inputs : external_inputs[n].in_pin.node \notin DOMAIN node_map
    \/ \E n \in DOMAIN external_outputs : external_outputs[n].out_pin.node \notin DOMAIN node_map

\* a variant that lists the input ports of new_node in the opposite order
NewNodeReversed(external_input_names, external_output_names) ==
    [name |-> <<"Subsystem">>,
     inputs |-> [n \in DOMAIN external_input_names |->
                   [name |-> external_input_names[Len(external_input_names) + 1 - n], kind |-> "Internal"]],
     outputs |-> [n \in DOMAIN external_output_names |-> [name |-> external_output_names[n], kind |-> "Internal"]],
     subsystem |-> None]

\* new_node: one Internal port per external wire, in the order of the names
NewNode(external_input_names, external_output_names) ==
    [name |-> <<"Subsystem">>,
     inputs |-> [n \in DOMAIN external_input_names |-> [name |-> external_input_names[n], kind |-> "Internal"]],
     outputs |-> [n \in DOMAIN external_output_names |-> [name |-> external_output_names[n], kind |-> "Internal"]],
     subsystem |-> None]

RECURSIVE UnconnectedInputs(_, _)
\* the inputs without a wire, node by node in slot order, port by port
UnconnectedInputs(subsystem, ids) ==
    IF ids = <<>> THEN <<>>
    ELSE LET node_id == Head(ids)
             all == [n \in DOMAIN subsystem.nodes[node_id].inputs |->
                       [node |-> node_id, port |-> n,
                        name |-> subsystem.nodes[node_id].inputs[n].name]]
         IN  SelectSeq(all, LAMBDA c : InRemotes(subsystem, InPinId(c.node, c.port)) = {})
             \o UnconnectedInputs(subsystem, Tail(ids))

RECURSIVE UnconnectedOutputs(_, _)
\* the outputs without a wire, node by node in slot order, port by port
UnconnectedOutputs(subsystem, ids) ==
    IF ids = <<>> THEN <<>>
    ELSE LET node_id == Head(ids)
             all == [n \in DOMAIN subsystem.nodes[node_id].outputs |->
                       [node |-> node_id, port |-> n,
                        name |-> subsystem.nodes[node_id].outputs[n].name]]
         IN  SelectSeq(all, LAMBDA c : OutRemotes(subsystem, OutPinId(c.node, c.port)) = {})
             \o UnconnectedOutputs(subsystem, Tail(ids))

RECURSIVE SweepInputsNoPort(_, _, _, _)
\* a variant that wires the stand-in sources and adds no port to new_node
SweepInputsNoPort(subsystem, new_node, list, n) ==
    IF list = <<>> THEN [subsystem |-> subsystem, new_node |-> new_node]
    ELSE LET c == Head(list)
             input_node_id == NextId(subsystem)
             inserted == insert_node(subsystem, SourceNode("ExtUC", n, c.name))
         IN  SweepInputsNoPort(connect(inserted, OutPinId(input_node_id, 1), InPinId(c.node, c.port)),
                               new_node, Tail(list), n + 1)

RECURSIVE SweepInputs(_, _, _, _)
\* for the n-th unconnected input: a stand-in source wired to it, and an
\* Internal input of the same name appended to new_node
SweepInputs(subsystem, new_node, list, n) ==
    IF list = <<>> THEN [subsystem |-> subsystem, new_node |-> new_node]
    ELSE LET c == Head(list)
             input_node_id == NextId(subsystem)
             inserted == insert_node(subsystem, SourceNode("ExtUC", n, c.name))
         IN  SweepInputs(connect(inserted, OutPinId(input_node_id, 1), InPinId(c.node, c.port)),
                         [new_node EXCEPT !.inputs = Append(@, [name |-> c.name, kind |-> "Internal"])],
                         Tail(list), n + 1)

RECURSIVE SweepOutputs(_, _, _, _)
\* for the n-th unconnected output: a stand-in sink wired from it, and an
\* Internal output of the same name appended to new_node
SweepOutputs(subsystem, new_node, list, n) ==
    IF list = <<>> THEN [subsystem |-> subsystem, new_node |-> new_node]
    ELSE LET c == Head(list)
             output_node_id == NextId(subsystem)
             inserted == insert_node(subsystem, SinkNode("ExtOutUC", n, c.name))
         IN  SweepOutputs(connect(inserted, OutPinId(c.node, c.port), InPinId(output_node_id, 1)),
                          [new_node EXCEPT !.outputs = Append(@, [name |-> c.name, kind |-> "Internal"])],
                          Tail(list), n + 1)

\* a variant that reconnects all the external inputs but the last
OuterInputPairsButLast(external_inputs, new_node_id) ==
    [n \in 1..(Len(external_inputs) - 1) |-> Wire(external_inputs[n].out_pin, InPinId(new_node_id, n))]

\* the n-th external input now ends at the n-th input of the new node
OuterInputPairs(external_inputs, new_node_id) ==
    [n \in DOMAIN external_inputs |-> Wire(external_inputs[n].out_pin, InPinId(new_node_id, n))]

\* the n-th external output now starts at the n-th output of the new node
OuterOutputPairs(external_outputs, new_node_id) ==
    [n \in DOMAIN external_outputs |-> Wire(OutPinId(new_node_id, n), external_outputs[n].in_pin)]

\* the body of the "Convert To Subsystem" button: the graph left behind, the
\* new Subsystem's graph and what the steps computed on the way
Extract(snarl, selected, wires, handle) ==
    LET sel == Range(selected)
        internal_wires == InternalWires(wires, sel)
        external_inputs == ExternalInputs(wires, sel)
        external_outputs == ExternalOutputs(wires, sel)
        external_input_names == ExternalInputNames(snarl, external_inputs)
        external_output_names == ExternalOutputNames(snarl, external_outputs)
        sources == InsertNodes(NewSnarl,
                      [n \in DOMAIN external_input_names |-> SourceNode("Ext", n, external_input_names[n])])
        sinks == InsertNodes(sources.snarl,
                      [n \in DOMAIN external_output_names |-> SinkNode("Ext", n, external_output_names[n])])
        moved == Rehome(snarl, sinks.snarl, <<>>, selected)
        node_map == moved.node_map
        wired == ConnectAll(ConnectAll(ConnectAll(moved.subsystem,
                        InternalPairs(internal_wires, node_map)),
                        ExternalInputPairs(external_inputs, sources.ids, node_map)),
                        ExternalOutputPairs(external_outputs, sinks.ids, node_map))
        swept_in == SweepInputs(wired, NewNode(external_input_names, external_output_names),
                                UnconnectedInputs(wired, node_ids(wired)), 1)
        swept == SweepOutputs(swept_in.subsystem, swept_in.new_node,
                              UnconnectedOutputs(swept_in.subsystem, node_ids(swept_in.subsystem)), 1)
        new_node == [swept.new_node EXCEPT !.subsystem = handle]
        new_node_id == NextId(moved.snarl)
        outer == ConnectAll(ConnectAll(insert_node(moved.snarl, new_node),
                        OuterInputPairs(external_inputs, new_node_id)),
                        OuterOutputPairs(external_outputs, new_node_id))
    IN  [snarl |-> outer, subsystem |-> swept.subsystem, node_map |-> node_map,
         new_node_id |-> new_node_id,
         external_inputs |-> external_inputs, external_outputs |-> external_outputs,
         external_input_nodes |-> sources.ids, external_output_nodes |-> sinks.ids]

\* whether the body of the button panics before it is through: looking up
\* the names (lines 277 and 303) or, after that, at one of the two expect()
ExtractPanics(snarl, selected, wires) ==
    LET sel == Range(selected)
        external_inputs == ExternalInputs(wires, sel)
        external_outputs == ExternalOutputs(wires, sel)
        external_input_names == ExternalInputNames(snarl, external_inputs)
        external_output_names == ExternalOutputNames(snarl, external_outputs)
        sources == InsertNodes(NewSnarl,
                      [n \in DOMAIN external_input_names |-> SourceNode("Ext", n, external_input_names[n])])
        sinks == InsertNodes(sources.snarl,
                      [n \in DOMAIN external_output_names |-> SinkNode("Ext", n, external_output_names[n])])
    IN  \/ NamePanics(snarl, external_inputs, external_outputs)
        \/ ExpectPanics(external_inputs, external_outputs,
                        Rehome(snarl, sinks.snarl, <<>>, selected).node_map)

\* a variant whose button is enabled also when nothing is selected
ConvertSelectedAlways(selected, wires) ==
    /\ Range(wires) = RelevantWires(Snarl, Range(selected))
    /\ IF ExtractPanics(Snarl, selected, wires)
       THEN /\ panicked' = TRUE
            /\ last' = [op |-> "panic",
                        expect |-> ~NamePanics(Snarl, ExternalInputs(wires, Range(selected)),
                                               ExternalOutputs(wires, Range(selected)))]
            /\ left' = [left EXCEPT !.converts = @ - 1]
            /\ UNCHANGED <<subs, current, previous, path, pass>>
       ELSE \E r \in {Extract(Snarl, selected, wires, Min(FreeHandles))} :
                /\ subs' = (Min(FreeHandles) :> r.subsystem) @@ [subs EXCEPT ![current] = r.snarl]
                /\ last' = [op |-> "convert", pre |-> Snarl, selected |-> selected,
                            subsystem |-> Min(FreeHandles), node_map |-> r.node_map,
                            new_node_id |-> r.new_node_id,
                            external_inputs |-> r.external_inputs,
                            external_outputs |-> r.external_outputs,
                            external_input_nodes |-> r.external_input_nodes,
                            external_output_nodes |-> r.external_output_nodes]
                /\ left' = [left EXCEPT !.converts = @ - 1]
                /\ UNCHANGED <<current, previous, path, panicked, pass>>

\* "Convert To Subsystem" with selected = get_selected_nodes() and wires the
\* order in which snarl.wires() yields the relevant wires.  With nothing
\* selected the button is disabled and the body does not run.
ConvertSelected(selected, wires) ==
    /\ Range(wires) = RelevantWires(Snarl, Range(selected))
    /\ IF selected = <<>>
       THEN /\ last' = [op |-> "refused"]
            /\ UNCHANGED <<subs, current, previous, path, panicked, left, pass>>
       ELSE IF ExtractPanics(Snarl, selected, wires)
       THEN /\ panicked' = TRUE
            /\ last' = [op |-> "panic",
                        expect |-> ~NamePanics(Snarl, ExternalInputs(wires, Range(selected)),
                                               ExternalOutputs(wires, Range(selected)))]
            /\ left' = [left EXCEPT !.converts = @ - 1]
            /\ UNCHANGED <<subs, current, previous, path, pass>>
       ELSE \E r \in {Extract(Snarl, selected, wires, Min(FreeHandles))} :
                /\ subs' = (Min(FreeHandles) :> r.subsystem) @@ [subs EXCEPT ![current] = r.snarl]
                /\ last' = [op |-> "convert", pre |-> Snarl, selected |-> selected,
                            subsystem |-> Min(FreeHandles), node_map |-> r.node_map,
                            new_node_id |-> r.new_node_id,
                            external_inputs |-> r.external_inputs,
                            external_outputs |-> r.external_outputs,
                            external_input_nodes |-> r.external_input_nodes,
                            external_output_nodes |-> r.external_output_nodes]
                /\ left' = [left EXCEPT !.converts = @ - 1]
                /\ UNCHANGED <<current, previous, path, panicked, pass>>

\* the click on "Convert To Subsystem" with some nodes selected.  snarl.wires()
\* yields the wires of a hash set in any order; the three filters keep that
\* order, so every order of the external inputs and of the external outputs
\* is taken (the order of the internal wires changes nothing: connect adds to a set)
Convert ==
    /\ ~panicked
    /\ pass = NoPass
    /\ FreeHandles # {}
    /\ left.converts > 0
    /\ \E S \in {T \in SUBSET (1..Snarl.len) : Cardinality(T) <= left.selected} :
          \E selected \in Orders(S) :
             \E ins \in Orders({w \in Snarl.wires : w.in_pin.node \in S /\ w.out_pin.node \notin S}) :
                \E outs \in Orders({w \in Snarl.wires : w.in_pin.node \notin S /\ w.out_pin.node \in S}) :
                   ConvertSelected(selected,
                       SomeOrder({w \in Snarl.wires : w.in_pin.node \in S /\ w.out_pin.node \in S})
                       \o ins \o outs)

\* the input pins and the output pins the graph shows
InPins(g) == UNION {{InPinId(n, i) : i \in DOMAIN g.nodes[n].inputs} : n \in DOMAIN g.nodes}

OutPins(g) == UNION {{OutPinId(n, o) : o \in DOMAIN g.nodes[n].outputs} : n \in DOMAIN g.nodes}

Next ==
    \/ AddNode
    \/ \E n \in DOMAIN Snarl.nodes : AddInput(n)
    \/ \E n \in DOMAIN Snarl.nodes : AddOutput(n)
    \/ \E pin \in InPins(Snarl), s \in EditedNames \cup {"Input"} : EditInputName(pin.node, pin.input, s)
    \/ \E pin \in OutPins(Snarl), s \in EditedNames \cup {"Output"} : EditOutputName(pin.node, pin.output, s)
    \/ \E n \in DOMAIN Snarl.nodes : RemoveNode(n)
    \/ \E from \in OutPins(Snarl), to \in InPins(Snarl) : Connect(from, to)
    \/ \E pin \in InPins(Snarl) : drop_inputs(pin)
    \/ \E pin \in OutPins(Snarl) : drop_outputs(pin)
    \/ ShowRemainingPins
    \/ \E n \in DOMAIN Snarl.nodes : Enter(n)
    \/ Leave
    \/ Convert

Spec == Init /\ [][Next]_vars

(* ------------- larger diagrams, up to their first conversion ----------- *)
InitFlat ==
    /\ subs = (Toplevel :> NewSnarl)
    /\ current = Toplevel
    /\ previous = <<>>
    /\ path = <<>>
    /\ panicked = FALSE
    /\ pass = NoPass
    /\ left = [nodes |-> FlatNodes, ports |-> FlatPorts, wires |-> FlatWires,
               edited |-> FlatEdited, drops |-> FlatDrops, removed |-> FlatRemoved,
               converts |-> FlatConverts, selected |-> FlatSelected]
    /\ last = [op |-> "new"]

\* no conversion yet
Flat == DOMAIN subs = {Toplevel}

NextFlat ==
    \/ Flat /\ AddNode
    \/ Flat /\ \E n \in DOMAIN Snarl.nodes : AddInput(n)
    \/ Flat /\ \E n \in DOMAIN Snarl.nodes : AddOutput(n)
    \/ Flat /\ \E pin \in InPins(Snarl), s \in EditedNames \cup {"Input"} : EditInputName(pin.node, pin.input, s)
    \/ Flat /\ \E pin \in OutPins(Snarl), s \in EditedNames \cup {"Output"} : EditOutputName(pin.node, pin.output, s)
    \/ Flat /\ \E n \in DOMAIN Snarl.nodes : RemoveNode(n)
    \/ Flat /\ \E from \in OutPins(Snarl), to \in InPins(Snarl) : Connect(from, to)
    \/ Flat /\ \E pin \in InPins(Snarl) : drop_inputs(pin)
    \/ Flat /\ \E pin \in OutPins(Snarl) : drop_outputs(pin)
    \/ Flat /\ ShowRemainingPins
    \/ Flat /\ Convert

SpecFlat == InitFlat /\ [][NextFlat]_vars

(* ------- small diagrams, converted and converted again (nesting) ------- *)
InitDeep ==
    /\ subs = (Toplevel :> NewSnarl)
    /\ current = Toplevel
    /\ previous = <<>>
    /\ path = <<>>
    /\ panicked = FALSE
    /\ pass = NoPass
    /\ left = [nodes |-> DeepNodes, ports |-> MaxPorts, wires |-> MaxWires,
               edited |-> MaxEdited, drops |-> MaxDrops, removed |-> MaxRemoved,
               converts |-> DeepConverts, selected |-> MaxSelected]
    /\ last = [op |-> "new"]

SpecDeep == InitDeep /\ [][Next]_vars

(* ============================ the claims =============================== *)

\* C1 (wire preservation).  After a conversion the wires that had exactly one
\* end in the selection correspond one to one to the wires touching the
\* replacement node of the enclosing graph: each pair has the same end outside
\* the selection (node id and port index) and the same direction, so their
\* number is the in-degree plus the out-degree of the replacement node.
C1_WirePreservation ==
    last.op = "convert" =>
        LET sel == Range(last.selected)
            R == last.new_node_id
            E == {w \in last.pre.wires : (w.in_pin.node \in sel) # (w.out_pin.node \in sel)}
            T == {w \in Snarl.wires : w.in_pin.node = R \/ w.out_pin.node = R}
            Same(w, t) == IF w.in_pin.node \in sel
                          THEN t.out_pin = w.out_pin /\ t.in_pin.node = R
                          ELSE t.in_pin = w.in_pin /\ t.out_pin.node = R
        IN  /\ Cardinality(E) = Cardinality({w \in Snarl.wires : w.in_pin.node = R})
                                + Cardinality({w \in Snarl.wires : w.out_pin.node = R})
            /\ \E f \in [E -> T] :
                  /\ \A v, w \in E : f[v] = f[w] => v = w
                  /\ \A t \in T : \E w \in E : f[w] = t
                  /\ \A w \in E : Same(w, f[w])

\* C1 witness: a conversion severed wires entering and wires leaving the selection
C1_Witness ==
    /\ last.op = "convert"
    /\ Len(last.external_inputs) >= 1
    /\ Len(last.external_outputs) >= 1

\* C2 (internal closure).  After a conversion every wire that had both ends in
\* the selection has exactly one wire in the new Subsystem, with both ends
\* taken through the id map and the port indices unchanged, and the new
\* Subsystem has no other wire between two rehomed nodes.
C2_InternalClosure ==
    last.op = "convert" =>
        LET sel == Range(last.selected)
            map == last.node_map
            sub == subs[last.subsystem]
            I == {w \in last.pre.wires : w.in_pin.node \in sel /\ w.out_pin.node \in sel}
            rehomed == {map[k] : k \in DOMAIN map}
            J == {w \in sub.wires : w.in_pin.node \in rehomed /\ w.out_pin.node \in rehomed}
        IN  /\ \A j, k \in DOMAIN map : map[j] = map[k] => j = k
            /\ \A w \in I : w.in_pin.node \in DOMAIN map /\ w.out_pin.node \in DOMAIN map
            /\ J = {Wire(OutPinId(map[w.out_pin.node], w.out_pin.output),
                         InPinId(map[w.in_pin.node], w.in_pin.input)) : w \in I}
            /\ Cardinality(J) = Cardinality(I)

\* C2 witness: a conversion moved two wired nodes to ids other than their old ones
C2_Witness ==
    /\ last.op = "convert"
    /\ \E w \in last.pre.wires :
          /\ w.in_pin.node \in Range(last.selected)
          /\ w.out_pin.node \in Range(last.selected)
          /\ w.in_pin.node # w.out_pin.node
          /\ last.node_map[w.in_pin.node] # w.in_pin.node
    /\ Len(last.external_inputs) >= 1

\* C3 (dangling ports).  After a conversion every input and every output of a
\* selected node that carried no wire has its own port on the replacement
\* node, of the same name and of kind Internal, and that port carries no wire
\* in the enclosing graph.
C3_DanglingExposed ==
    last.op = "convert" =>
        LET sel == Range(last.selected) \cap DOMAIN last.pre.nodes
            pre == last.pre
            R == last.new_node_id
            node == Snarl.nodes[R]
            DIn == {p \in InPins(pre) : p.node \in sel /\ InRemotes(pre, p) = {}}
            DOut == {p \in OutPins(pre) : p.node \in sel /\ OutRemotes(pre, p) = {}}
        IN  /\ \E f \in [DIn -> DOMAIN node.inputs] :
                  /\ \A p, q \in DIn : f[p] = f[q] => p = q
                  /\ \A p \in DIn :
                        /\ node.inputs[f[p]] = [name |-> pre.nodes[p.node].inputs[p.input].name,
                                                kind |-> "Internal"]
                        /\ InRemotes(Snarl, InPinId(R, f[p])) = {}
            /\ \E f \in [DOut -> DOMAIN node.outputs] :
                  /\ \A p, q \in DOut : f[p] = f[q] => p = q
                  /\ \A p \in DOut :
                        /\ node.outputs[f[p]] = [name |-> pre.nodes[p.node].outputs[p.output].name,
                                                 kind |-> "Internal"]
                        /\ OutRemotes(Snarl, OutPinId(R, f[p])) = {}

\* C3 witness: a conversion of nodes with an unwired input, an unwired output
\* and a wire from outside
C3_Witness ==
    /\ last.op = "convert"
    /\ \E p \in InPins(last.pre) : p.node \in Range(last.selected) /\ InRemotes(last.pre, p) = {}
    /\ \E p \in OutPins(last.pre) : p.node \in Range(last.selected) /\ OutRemotes(last.pre, p) = {}
    /\ Len(last.external_inputs) >= 1

\* C4 (positional boundary).  After a conversion, for every n: the n-th input
\* of the replacement node is an Internal port named after the input the n-th
\* external input wire fed, the one wire into it comes from that wire's
\* outside output, and the n-th stand-in source ("Ext" n) of the Subsystem
\* feeds exactly that input of the rehomed node; and the same for the n-th
\* external output wire, the n-th output and the n-th stand-in sink.
C4_PositionalBoundary ==
    last.op = "convert" =>
        LET pre == last.pre
            map == last.node_map
            sub == subs[last.subsystem]
            R == last.new_node_id
            node == Snarl.nodes[R]
            ins == last.external_inputs
            outs == last.external_outputs
        IN  /\ Len(node.inputs) >= Len(ins)
            /\ Len(node.outputs) >= Len(outs)
            /\ \A n \in DOMAIN ins :
                  /\ node.inputs[n] = [name |-> pre.nodes[ins[n].in_pin.node].inputs[ins[n].in_pin.input].name,
                                       kind |-> "Internal"]
                  /\ InRemotes(Snarl, InPinId(R, n)) = {ins[n].out_pin}
                  /\ sub.nodes[last.external_input_nodes[n]].name = <<"Ext", n>>
                  /\ sub.nodes[last.external_input_nodes[n]].inputs = <<>>
                  /\ OutRemotes(sub, OutPinId(last.external_input_nodes[n], 1))
                        = {InPinId(map[ins[n].in_pin.node], ins[n].in_pin.input)}
            /\ \A n \in DOMAIN outs :
                  /\ node.outputs[n] = [name |-> pre.nodes[outs[n].out_pin.node].outputs[outs[n].out_pin.output].name,
                                        kind |-> "Internal"]
                  /\ OutRemotes(Snarl, OutPinId(R, n)) = {outs[n].in_pin}
                  /\ sub.nodes[last.external_output_nodes[n]].name = <<"Ext", n>>
                  /\ sub.nodes[last.external_output_nodes[n]].outputs = <<>>
                  /\ InRemotes(sub, InPinId(last.external_output_nodes[n], 1))
                        = {OutPinId(map[outs[n].out_pin.node], outs[n].out_pin.output)}

\* C4 witness: a conversion with two external input wires into inputs of
\* different names
C4_Witness ==
    /\ last.op = "convert"
    /\ Len(last.external_inputs) >= 2
    /\ LET a == last.external_inputs[1].in_pin
           b == last.external_inputs[2].in_pin
       IN  last.pre.nodes[a.node].inputs[a.input].name # last.pre.nodes[b.node].inputs[b.input].name

\* C5 (port-count invariant).  After drop_inputs or drop_outputs every wire of
\* the graph references a port index within the port list of its end node.
C5_WiresInRangeAfterDrop ==
    last.op \in {"drop_inputs", "drop_outputs"} =>
        \A w \in Snarl.wires :
            /\ w.in_pin.input <= Len(Snarl.nodes[w.in_pin.node].inputs)
            /\ w.out_pin.output <= Len(Snarl.nodes[w.out_pin.node].outputs)

\* C6 (at most one wire per input).  In every graph, after any sequence of
\* commands, each input pin carries at most one wire.
C6_AtMostOneInput ==
    \A h \in DOMAIN subs : \A w \in subs[h].wires :
        Cardinality(InRemotes(subs[h], w.in_pin)) <= 1

\* C7 (enter creates and attaches).  After "Enter Subsystem" on a node without
\* a Subsystem, the node references the Subsystem that is now current.
C7_EnterAttaches ==
    (last.op = "enter" /\ ~last.had) =>
        /\ previous = Append(last.pre_previous, last.pre_current)
        /\ subs[current] = NewSnarl
        /\ subs[last.pre_current].nodes[last.node].subsystem = current

\* C8 (enter shares).  After "Enter Subsystem" on a node that has a Subsystem,
\* the old current is on top of the history and current is the very Subsystem
\* the node references; entering the node again right after leaving it shows
\* the graph as it was left, edits included.
C8_EnterShares ==
    (last.op = "enter" /\ last.had) =>
        /\ previous = Append(last.pre_previous, last.pre_current)
        /\ current = subs[last.pre_current].nodes[last.node].subsystem
        /\ last.again => subs[current] = last.seen

\* C8 witness: a node's Subsystem was entered, edited, left and entered again
C8_Witness ==
    /\ last.op = "enter"
    /\ last.had
    /\ last.again
    /\ last.edited

\* C9 (leave).  "Go Up One Level" happens only with a non-empty history; it
\* makes the last history entry current and removes it from the history, the
\* earlier entries staying; it changes no graph; and right after an enter it
\* restores the current and the history of before.
C9_Leave ==
    [][last'.op = "leave" =>
          /\ previous # <<>>
          /\ current' = Last(previous)
          /\ previous' = Front(previous)
          /\ \A h \in DOMAIN subs' : h \in DOMAIN subs /\ subs'[h] = subs[h]
          /\ ({current'} \cup Range(previous') \cup {Toplevel}) \subseteq DOMAIN subs'
          /\ last.op = "enter" => (current' = last.pre_current /\ previous' = last.pre_previous)]_vars

\* C9 witness: a level below the top was left right after it was entered
C9_Witness ==
    /\ last.op = "leave"
    /\ ~last.edited
    /\ previous # <<>>

\* C10 (navigation invariant).  The history never contains the current Subsystem.
C10_HistoryExcludesCurrent ==
    \A i \in DOMAIN previous : previous[i] # current

\* C10 witness: two levels below the top, inside a Subsystem a conversion made
C10_Witness ==
    /\ Len(previous) = 2
    /\ \E n \in DOMAIN subs[Toplevel].nodes : subs[Toplevel].nodes[n].subsystem = previous[2]

\* C11 (acyclic containment).  No Subsystem is reachable from itself through
\* the subsystem references of the nodes of its graph, directly or through
\* other Subsystems.
C11_Acyclic ==
    \A h \in DOMAIN subs : h \notin ReachFrom(subs, Children(subs[h]), MaxSubs + 1)

\* C11 witness: a conversion rehomed a node that owns a Subsystem, so that the
\* top level contains a Subsystem that contains a Subsystem
C11_Witness ==
    /\ last.op = "convert"
    /\ \E n \in Range(last.selected) \cap DOMAIN last.pre.nodes : last.pre.nodes[n].subsystem # None
    /\ \E h \in Children(subs[Toplevel]) : Children(subs[h]) # {}

\* C12 (extraction frame).  After a conversion the wires of the enclosing
\* graph that do not touch the replacement node are exactly the wires that had
\* no end in the selection, and every node outside the selection is there
\* under its id with the same name, port lists and subsystem reference.
C12_ExtractionFrame ==
    last.op = "convert" =>
        LET sel == Range(last.selected)
            pre == last.pre
            R == last.new_node_id
        IN  /\ {w \in Snarl.wires : w.in_pin.node # R /\ w.out_pin.node # R}
                 = {w \in pre.wires : w.in_pin.node \notin sel /\ w.out_pin.node \notin sel}
            /\ \A w \in pre.wires :
                  (w.in_pin.node \notin sel /\ w.out_pin.node \notin sel) => w \in Snarl.wires
            /\ \A n \in (DOMAIN pre.nodes) \ sel :
                  /\ n \in DOMAIN Snarl.nodes
                  /\ n # R
                  /\ Snarl.nodes[n] = pre.nodes[n]

\* C12 witness: a conversion next to a wire between two nodes that are not
\* selected, one of which also feeds the selection
C12_Witness ==
    /\ last.op = "convert"
    /\ Len(last.external_inputs) >= 1
    /\ \E w \in last.pre.wires :
          /\ w.in_pin.node \notin Range(last.selected)
          /\ w.out_pin.node \notin Range(last.selected)
          /\ w.in_pin.node # w.out_pin.node
          /\ w \in Snarl.wires

\* C13 (empty selection).  With nothing selected "Convert To Subsystem" does
\* nothing: the graphs, the current Subsystem and the history stay as they
\* are.  A conversion happens only with a selection that is not empty, and
\* only a conversion creates a Subsystem that a node references.
C13_EmptySelectionRefused ==
    [][/\ last'.op = "refused" => (subs' = subs /\ current' = current /\ previous' = previous)
       /\ last'.op = "convert" => last'.selected # <<>>
       /\ (\E h \in (DOMAIN subs') \ (DOMAIN subs) : \E g \in DOMAIN subs' : h \in Children(subs'[g]))
             => (last'.op = "convert" /\ last'.selected # <<>>)]_vars

\* C13 witness: the button was looked at with nodes in the graph and none selected
C13_Witness ==
    /\ last.op = "refused"
    /\ DOMAIN Snarl.nodes # {}
    /\ left.converts > 0

\* the wires of a graph all end at nodes of that graph
WiresAtNodes(g) ==
    \A w \in g.wires : w.in_pin.node \in DOMAIN g.nodes /\ w.out_pin.node \in DOMAIN g.nodes

\* C14 as stated (no wire outlives its node).  In every graph both ends of
\* every wire are nodes of that graph; after "Remove Node" no wire references
\* the removed id; and after a conversion no wire of the enclosing graph
\* references an id of a node that was rehomed.
C14_NoRehomedIdInWires ==
    /\ \A h \in DOMAIN subs : WiresAtNodes(subs[h])
    /\ last.op = "remove" =>
          \A w \in Snarl.wires : w.in_pin.node # last.node /\ w.out_pin.node # last.node
    /\ last.op = "convert" =>
          \A w \in Snarl.wires :
              w.in_pin.node \notin DOMAIN last.node_map /\ w.out_pin.node \notin DOMAIN last.node_map

\* C14 amended.  In every graph both ends of every wire are nodes of that
\* graph; after "Remove Node" no wire references the removed id; and after a
\* conversion a wire of the enclosing graph that references the id of a
\* rehomed node ends there at the replacement node, which took that id over.
C14_NoWireOutlivesNode ==
    /\ \A h \in DOMAIN subs : WiresAtNodes(subs[h])
    /\ last.op = "remove" =>
          \A w \in Snarl.wires : w.in_pin.node # last.node /\ w.out_pin.node # last.node
    /\ last.op = "convert" =>
          \A w \in Snarl.wires :
              /\ w.in_pin.node \in DOMAIN last.node_map => w.in_pin.node = last.new_node_id
              /\ w.out_pin.node \in DOMAIN last.node_map => w.out_pin.node = last.new_node_id

\* C14 witness: a conversion severed a wire and the replacement node took the
\* id of a rehomed node
C14_Witness ==
    /\ last.op = "convert"
    /\ Len(last.external_inputs) + Len(last.external_outputs) >= 1
    /\ last.new_node_id \in DOMAIN last.node_map

\* the nodes of graph g as they are in graph pre, but for one port list of node n
SameButPorts(g, pre, n) ==
    /\ DOMAIN g.nodes = DOMAIN pre.nodes
    /\ \A k \in DOMAIN pre.nodes :
          /\ k # n => g.nodes[k] = pre.nodes[k]
          /\ g.nodes[k].name = pre.nodes[k].name
          /\ g.nodes[k].subsystem = pre.nodes[k].subsystem

C16_BoundaryStandIns ==
    last.op = "convert" =>
        LET pre == last.pre
            map == last.node_map
            sub == subs[last.subsystem]
            ins == last.external_inputs
            outs == last.external_outputs
            src == last.external_input_nodes
            snk == last.external_output_nodes
            rehomed == {map[k] : k \in DOMAIN map}
        IN  /\ Len(src) = Len(ins) /\ Len(snk) = Len(outs)
            /\ Cardinality(Range(src) \cup Range(snk)) = Len(ins) + Len(outs)
            /\ (Range(src) \cup Range(snk)) \cap rehomed = {}
            /\ {k \in (DOMAIN sub.nodes) \ rehomed : sub.nodes[k].name[1] = "Ext"} = Range(src) \cup Range(snk)
            /\ \A n \in DOMAIN ins :
                  /\ sub.nodes[src[n]].inputs = <<>>
                  /\ sub.nodes[src[n]].outputs
                        = <<[name |-> pre.nodes[ins[n].in_pin.node].inputs[ins[n].in_pin.input].name,
                             kind |-> "External"]>>
                  /\ {w \in sub.wires : w.out_pin.node = src[n]}
                        = {Wire(OutPinId(src[n], 1),
                                InPinId(map[ins[n].in_pin.node], ins[n].in_pin.input))}
            /\ \A n \in DOMAIN outs :
                  /\ sub.nodes[snk[n]].outputs = <<>>
                  /\ sub.nodes[snk[n]].inputs
                        = <<[name |-> pre.nodes[outs[n].out_pin.node].outputs[outs[n].out_pin.output].name,
                             kind |-> "External"]>>
                  /\ {w \in sub.wires : w.in_pin.node = snk[n]}
                        = {Wire(OutPinId(map[outs[n].out_pin.node], outs[n].out_pin.output),
                                InPinId(snk[n], 1))}
            /\ \A p \in InPins(sub) : InRemotes(sub, p) # {}
            /\ \A p \in OutPins(sub) : OutRemotes(sub, p) # {}

\* C16 witness: a conversion with a wire into an input of an edited name and
\* a wire out of the selection
C16_Witness ==
    /\ last.op = "convert"
    /\ Len(last.external_outputs) >= 1
    /\ \E n \in DOMAIN last.external_inputs :
          last.pre.nodes[last.external_inputs[n].in_pin.node].inputs[last.external_inputs[n].in_pin.input].name
            \in EditedNames

\* whether a node is a boundary stand-in: a name the conversion gives, no
\* Subsystem, and one External port on one side only
IsStandIn(node) ==
    /\ node.name[1] \in {"Ext", "ExtUC", "ExtOutUC"}
    /\ node.subsystem = None
    /\ \/ node.inputs = <<>> /\ Len(node.outputs) = 1 /\ node.outputs[1].kind = "External"
       \/ node.outputs = <<>> /\ Len(node.inputs) = 1 /\ node.inputs[1].kind = "External"

\* C17 (nothing but boundary artifacts).  After a conversion the id map is
\* one to one from the selected nodes of the graph onto nodes of the new
\* Subsystem, each the node it was (name, port lists, subsystem reference);
\* the other nodes of the Subsystem are stand-ins, one per external input
\* wire, external output wire, unwired input and unwired output of the
\* selection; and the enclosing graph has the nodes it had outside the
\* selection and one more, the replacement node, which references the new
\* Subsystem.
C17_OnlyBoundaryArtifacts ==
    last.op = "convert" =>
        LET pre == last.pre
            sel == Range(last.selected) \cap DOMAIN pre.nodes
            map == last.node_map
            sub == subs[last.subsystem]
            R == last.new_node_id
            rehomed == {map[k] : k \in DOMAIN map}
            DIn == {p \in InPins(pre) : p.node \in sel /\ InRemotes(pre, p) = {}}
            DOut == {p \in OutPins(pre) : p.node \in sel /\ OutRemotes(pre, p) = {}}
        IN  /\ DOMAIN map = sel
            /\ \A j, k \in sel : map[j] = map[k] => j = k
            /\ rehomed \subseteq DOMAIN sub.nodes
            /\ \A k \in sel : sub.nodes[map[k]] = pre.nodes[k]
            /\ \A k \in (DOMAIN sub.nodes) \ rehomed : IsStandIn(sub.nodes[k])
            /\ Cardinality((DOMAIN sub.nodes) \ rehomed)
                 = Len(last.external_inputs) + Len(last.external_outputs)
                   + Cardinality(DIn) + Cardinality(DOut)
            /\ R \notin (DOMAIN pre.nodes) \ sel
            /\ DOMAIN Snarl.nodes = ((DOMAIN pre.nodes) \ sel) \cup {R}
            /\ Snarl.nodes[R].subsystem = last.subsystem
            /\ Snarl.nodes[R].name = <<"Subsystem">>
            /\ \A k \in (DOMAIN Snarl.nodes) \ {R} : Snarl.nodes[k].subsystem # last.subsystem

\* C17 witness: a conversion of two nodes with a wire from outside and a port
\* without a wire
C17_Witness ==
    /\ last.op = "convert"
    /\ Cardinality(DOMAIN last.node_map) = 2
    /\ Len(last.external_inputs) >= 1
    /\ \E p \in InPins(last.pre) \cup OutPins(last.pre) :
          /\ p.node \in Range(last.selected)
          /\ {w \in last.pre.wires : w.in_pin = p \/ w.out_pin = p} = {}

\* C18 (the id map lookups succeed).  In every graph the wires end at nodes
\* of the graph, and so, whatever the selection (ids of no node included), a
\* conversion never stops at one of its two expect(), and when it is through
\* every end in the selection of every wire it classified is a key of the
\* id map: no internal wire was skipped.
C18_LookupsSucceed ==
    /\ last.op = "panic" => ~last.expect
    /\ last.op = "convert" =>
          /\ WiresAtNodes(last.pre)
          /\ \A w \in last.pre.wires :
                /\ w.in_pin.node \in Range(last.selected) => w.in_pin.node \in DOMAIN last.node_map
                /\ w.out_pin.node \in Range(last.selected) => w.out_pin.node \in DOMAIN last.node_map

\* C18 witness: a conversion of a selection with the id of a removed node and
\* a node with a wire from outside
C18_Witness ==
    /\ last.op = "convert"
    /\ \E n \in Range(last.selected) : n \notin DOMAIN last.pre.nodes
    /\ Len(last.external_inputs) >= 1

\* C19 (two-phase port deletion).  While the pass that draws the pins of a
\* node is under way, the port list it goes through has the length the pass
\* counted when it started: no port is removed from it before the pass is over.
C19_DeletionDeferred ==
    pass # NoPass =>
        pass.count = Len(IF pass.side = "inputs" THEN Snarl.nodes[pass.node].inputs
                         ELSE Snarl.nodes[pass.node].outputs)

\* C20 (only ordinary ports are removed).  When drop_inputs or drop_outputs
\* deletes a port, the port is of kind Normal: a port of kind External (of a
\* stand-in) or Internal (of a replacement node) stays in its list.
C20_OnlyNormalRemoved ==
    /\ last.op = "drop_inputs" =>
          (Len(Snarl.nodes[last.pin.node].inputs) < Len(last.pre.nodes[last.pin.node].inputs)
             => last.pre.nodes[last.pin.node].inputs[last.pin.input].kind = "Normal")
    /\ last.op = "drop_outputs" =>
          (Len(Snarl.nodes[last.pin.node].outputs) < Len(last.pre.nodes[last.pin.node].outputs)
             => last.pre.nodes[last.pin.node].outputs[last.pin.output].kind = "Normal")

\* C21 (what is edited is owned by the top level).  The current Subsystem is
\* the top level or is reached from it through the subsystem references of
\* nodes, so that save(), which serializes the top level, writes it.
C21_CurrentOwnedByToplevel ==
    current \in ReachFrom(subs, {Toplevel}, MaxSubs + 1)

\* C22 (port deletion does not re-attach wires).  When drop_inputs or
\* drop_outputs deletes a port, a wire of that node that was on a later port
\* is on that same port afterwards, that is at the index the port moved down
\* to, and a wire that was on an earlier port is where it was.
C22_WiresFollowPorts ==
    /\ last.op = "drop_inputs" =>
          LET n == last.pin.node
              i == last.pin.input
          IN  Len(Snarl.nodes[n].inputs) < Len(last.pre.nodes[n].inputs) =>
                 \A w \in last.pre.wires : (w.in_pin.node = n /\ w.in_pin.input # i) =>
                     Wire(w.out_pin,
                          InPinId(n, IF w.in_pin.input < i THEN w.in_pin.input ELSE w.in_pin.input - 1))
                       \in Snarl.wires
    /\ last.op = "drop_outputs" =>
          LET n == last.pin.node
              o == last.pin.output
          IN  Len(Snarl.nodes[n].outputs) < Len(last.pre.nodes[n].outputs) =>
                 \A w \in last.pre.wires : (w.out_pin.node = n /\ w.out_pin.output # o) =>
                     Wire(OutPinId(n, IF w.out_pin.output < o THEN w.out_pin.output ELSE w.out_pin.output - 1),
                          w.in_pin)
                       \in Snarl.wires

\* C23 (shape of the navigation stack).  previous is empty exactly when current
\* is the top-level Subsystem, and the bottom element of a non-empty previous is
\* the top-level Subsystem.
C23_StackShape ==
    /\ (previous = <<>>) <=> (current = Toplevel)
    /\ previous # <<>> => previous[1] = Toplevel

\* two levels below the top level, just after Enter Subsystem
C23_Witness ==
    /\ Len(previous) = 2
    /\ previous[1] = Toplevel
    /\ current \notin Range(previous)
    /\ last.op = "enter"

====
